---- MODULE Spec2Model ----
(***************************************************************************)
(* DynamicPriorityQueue (src/BLOG.md, lines 412-448): a priority task      *)
(* queue with a concurrency limit that can be changed at run time.         *)
(*                                                                         *)
(* JavaScript runs one job at a time, so every action below is one job of  *)
(* the event loop, run to its end: a call of add, a call of setLimit, a    *)
(* task's promise settling, and the continuation of process() after its    *)
(* await.  A call of the async function process() runs synchronously up to *)
(* its first await; what is left of it runs in the continuation.           *)
(***************************************************************************)
EXTENDS Integers, Sequences, FiniteSets

\* ---------------------------------------------------------------- bounds
MaxTasks == 3
MaxPriority == 1
MaxLimit == 3
\* tasks submitted with the default priority (SpecFlat)
MaxFlatTasks == 4
\* tasks submitted in the behaviours checked for liveness (SpecLive)
MaxLiveTasks == 3

\* add(task, priority = 0)
DefaultPriority == 0

Priorities == 0..MaxPriority
\* the constructor and setLimit take any number: negative ones included
Limits == (0 - 1)..MaxLimit

\* What a task does synchronously when process() invokes it:
\*   async    - returns a promise that settles later
\*   throw    - throws before returning
\*   setLimit - calls queue.setLimit(arg), then returns a pending promise
\*   add      - calls queue.add(child, arg), then returns a pending promise
\* The synchronous calls modelled are the ones that move the queue most: a
\* setLimit that closes it or opens it fully, an add that jumps the queue.
Bodies ==
    {[kind |-> "async", arg |-> 0], [kind |-> "throw", arg |-> 0]}
    \cup {[kind |-> "setLimit", arg |-> n] : n \in {0, MaxLimit}}
    \cup {[kind |-> "add", arg |-> MaxPriority]}

VARIABLES
    concurrency,  \* this.concurrency
    running,      \* this.running
    queue,        \* this.queue: records {task, priority, resolve, reject}
    tasks,        \* every task submitted so far, in submission order
    lowered,      \* history: setLimit has put the limit below this.running,
                  \* and this.running has not come back down to it since
    web           \* the timers, promises and microtasks of one call each of
                  \* fetchWithTimeout and fetchWithTimeoutClean
                  \* (src/callbacks/easy/fetchWithTimeout.js)

vars == <<concurrency, running, queue, tasks, lowered, web>>

\* The queue object as one value, for the operators that model its methods.
State ==
    [concurrency |-> concurrency, running |-> running, queue |-> queue,
     tasks |-> tasks, lowered |-> lowered]

Install(s) ==
    /\ concurrency' = s.concurrency
    /\ running' = s.running
    /\ queue' = s.queue
    /\ tasks' = s.tasks
    /\ lowered' = s.lowered
    /\ UNCHANGED web

\* ------------------------------------------------------- values of tasks
NoValue == [kind |-> "none", of |-> 0]
ResultOf(t) == [kind |-> "value", of |-> t]
ErrorOf(t) == [kind |-> "error", of |-> t]

PendingHandle == [state |-> "pending", value |-> NoValue]

\* A task as submitted: the promise add() returns is `handle`.  invoked and
\* settleCalls count the calls of task() and of resolve/reject; the three
\* flags record what process() saw at the moment it invoked the task.
NewTask(body, priority) ==
    [priority |-> priority, body |-> body, phase |-> "queued",
     outcome |-> NoValue, handle |-> PendingHandle, settleCalls |-> 0,
     invoked |-> 0,
     startedBelow |-> TRUE, noHigherLeft |-> TRUE, noEarlierLeft |-> TRUE]

\* ------------------------------------------------------------- the queue
\* Variant: the comparator written the wrong way round, a.priority - b.priority.
CompareAscending(a, b) == a.priority - b.priority

\* the comparator of this.queue.sort: (a, b) => b.priority - a.priority
Compare(a, b) == b.priority - a.priority

RECURSIVE InsertSortedUnstable(_, _)
\* Variant: a sort that is not stable, placing a record before its equals.
InsertSortedUnstable(r, q) ==
    IF q = <<>> THEN <<r>>
    ELSE IF Compare(Head(q), r) < 0
         THEN <<Head(q)>> \o InsertSortedUnstable(r, Tail(q))
         ELSE <<r>> \o q

RECURSIVE InsertSorted(_, _)
\* Array.prototype.sort is stable: a record goes after every record that
\* the comparator does not place behind it.
InsertSorted(r, q) ==
    IF q = <<>> THEN <<r>>
    ELSE IF Compare(Head(q), r) <= 0
         THEN <<Head(q)>> \o InsertSorted(r, Tail(q))
         ELSE <<r>> \o q

\* Variant: add() that pushes and does not sort.
SortNone(q) == q

RECURSIVE Sort(_)
Sort(q) ==
    IF q = <<>> THEN <<>>
    ELSE InsertSorted(q[Len(q)], Sort(SubSeq(q, 1, Len(q) - 1)))

QueueRecord(t, priority) == [task |-> t, priority |-> priority, handle |-> t]

QueuedIds(q) == {q[i].task : i \in 1..Len(q)}

\* ------------------------------------------------------------- process()
\* Variant: the loop condition off by one, running <= concurrency.
LoopConditionOffByOne(s) == s.running <= s.concurrency /\ Len(s.queue) > 0

\* Variant: the loop condition without the limit, queue.length > 0 alone.
LoopConditionNoLimit(s) == Len(s.queue) > 0

\* Variant: the loop condition written running !== concurrency.
LoopConditionNotEqual(s) == s.running # s.concurrency /\ Len(s.queue) > 0

\* the loop condition of process()
LoopCondition(s) == s.running < s.concurrency /\ Len(s.queue) > 0

\* this.running++ and this.queue.shift(), then task is about to be invoked
Shift(s) ==
    LET r == Head(s.queue)
        t == r.task
    IN [s EXCEPT
          !.running = @ + 1,
          !.queue = Tail(@),
          !.tasks[t].phase = "running",
          !.tasks[t].invoked = @ + 1,
          !.tasks[t].startedBelow = (s.running < s.concurrency),
          !.tasks[t].noHigherLeft =
              \A u \in QueuedIds(Tail(s.queue)) :
                  s.tasks[u].priority <= s.tasks[t].priority,
          !.tasks[t].noEarlierLeft =
              \A u \in QueuedIds(Tail(s.queue)) :
                  s.tasks[u].priority = s.tasks[t].priority => u > t]

\* resolve(value) / reject(value) of the promise add() returned: the first
\* call settles the promise, later calls change nothing
Settle(s, h, state, value) ==
    [s EXCEPT
       !.tasks[h].settleCalls = @ + 1,
       !.tasks[h].handle =
           IF @.state = "pending" THEN [state |-> state, value |-> value] ELSE @]

\* Variant: a catch block that resolves the handle with the error.
SettleRecordAlwaysResolves(s, r, outcome) ==
    Settle(s, r.handle, "fulfilled", outcome)

\* Variant: a catch block that retries once, pushing the record back into
\* the queue instead of rejecting its handle.
SettleRecordRetriesOnce(s, r, outcome) ==
    IF outcome.kind = "value"
    THEN Settle(s, r.handle, "fulfilled", outcome)
    ELSE IF s.tasks[r.task].invoked < 2
         THEN [s EXCEPT !.queue = Append(@, r)]
         ELSE Settle(s, r.handle, "rejected", outcome)

\* try { resolve(result) } catch (error) { reject(error) } for record r
SettleRecord(s, r, outcome) ==
    IF outcome.kind = "value"
    THEN Settle(s, r.handle, "fulfilled", outcome)
    ELSE Settle(s, r.handle, "rejected", outcome)

\* Variant: a failure that keeps its slot, running-- on the success path only.
ReleaseOnSuccessOnly(s, r) ==
    [s EXCEPT
       !.running = IF s.tasks[r.task].handle.state = "rejected" THEN @ ELSE @ - 1,
       !.tasks[r.task].phase = "released",
       !.lowered = @ /\ s.running - 1 > s.concurrency]

\* finally { this.running--; ... } for record r
Release(s, r) ==
    [s EXCEPT
       !.running = @ - 1,
       !.tasks[r.task].phase = "released",
       !.lowered = @ /\ s.running - 1 > s.concurrency]

RECURSIVE process(_)
RECURSIVE add(_, _, _)
RECURSIVE setLimit(_, _)

\* the rest of one loop iteration once the awaited task has an outcome:
\* settle the handle, running--, this.process(), then the while loop again
AfterAwait(s, r, outcome) ==
    process(process(Release(SettleRecord(s, r, outcome), r)))

RECURSIVE processEager(_)
\* Variant: a process() that starts a task without awaiting it inside the
\* loop, and so goes on to the next record.
processEager(s) ==
    IF ~LoopCondition(s) THEN s
    ELSE LET r == Head(s.queue)
             b == s.tasks[r.task].body
             s1 == Shift(s)
         IN CASE b.kind = "async" -> processEager(s1)
              [] b.kind = "throw" ->
                    processEager(Release(SettleRecord(s1, r, ErrorOf(r.task)), r))
              [] b.kind = "setLimit" -> processEager(setLimit(s1, b.arg))
              [] b.kind = "add" ->
                    processEager(add(s1, [kind |-> "async", arg |-> 0], b.arg))

\* One call of process() on the queue as it is at the call, up to the await
\* it suspends on (or its return).
processFrom(s) ==
    IF ~LoopCondition(s) THEN s
    ELSE LET r == Head(s.queue)
             b == s.tasks[r.task].body
             s1 == Shift(s)
         IN CASE b.kind = "async" -> s1
              [] b.kind = "throw" -> AfterAwait(s1, r, ErrorOf(r.task))
              [] b.kind = "setLimit" -> setLimit(s1, b.arg)
              [] b.kind = "add" ->
                    add(s1, [kind |-> "async", arg |-> 0], b.arg)

\* this.process(): the state it is called in is evaluated once
process(s0) == CHOOSE out \in {processFrom(s) : s \in {s0}} : TRUE

\* Variant: add() that forgets to call process().
addWithoutProcess(s, body, priority) ==
    LET t == Len(s.tasks) + 1
        pushed == Append(s.queue, QueueRecord(t, priority))
    IN [s EXCEPT
          !.tasks = Append(@, NewTask(body, priority)),
          !.queue = Sort(pushed)]

\* add(task, priority): push, sort, process()
add(s, body, priority) ==
    LET t == Len(s.tasks) + 1
        pushed == Append(s.queue, QueueRecord(t, priority))
    IN process([s EXCEPT
                  !.tasks = Append(@, NewTask(body, priority)),
                  !.queue = Sort(pushed)])

\* the tasks process() has invoked and not yet released
Held(ts) == {t \in DOMAIN ts : ts[t].phase \in {"running", "finished"}}

\* Variant: a setLimit that cancels the running tasks above the new limit,
\* rejecting their handles.
setLimitAborting(s, newConcurrency) ==
    LET excess == {t \in Held(s.tasks) :
                     Cardinality({u \in Held(s.tasks) : u <= t}) > newConcurrency}
    IN process([s EXCEPT
                  !.concurrency = newConcurrency,
                  !.running = @ - Cardinality(excess),
                  !.tasks = [t \in DOMAIN @ |->
                               IF t \in excess
                               THEN [@[t] EXCEPT
                                       !.phase = "released",
                                       !.handle = [state |-> "rejected",
                                                   value |-> NoValue]]
                               ELSE @[t]],
                  !.lowered = FALSE])

\* Variant: a setLimit that assigns the limit and does not call process().
setLimitWithoutProcess(s, newConcurrency) ==
    [s EXCEPT
       !.concurrency = newConcurrency,
       !.lowered = s.running > newConcurrency]

\* setLimit(newConcurrency)
setLimit(s, newConcurrency) ==
    process([s EXCEPT
               !.concurrency = newConcurrency,
               !.lowered = s.running > newConcurrency])

\* ---------------------------------------------------------------- actions
\* the program has called neither fetchWithTimeout nor fetchWithTimeoutClean
NotCalled == [called |-> FALSE]

\* tasks that will call add() when they are invoked: each needs a free id
Reserved(s) ==
    Cardinality({t \in QueuedIds(s.queue) : s.tasks[t].body.kind = "add"})

Room(body) == IF body.kind = "add" THEN 2 ELSE 1

\* new DynamicPriorityQueue(concurrency)
Init ==
    /\ concurrency \in Limits
    /\ running = 0
    /\ queue = <<>>
    /\ tasks = <<>>
    /\ lowered = FALSE
    /\ web = NotCalled

\* a caller outside the queue calls add(task, priority)
Add(body, priority) ==
    /\ Len(tasks) + Reserved(State) + Room(body) <= MaxTasks
    /\ Install(add(State, body, priority))

\* a caller outside the queue calls setLimit(n)
SetLimit(n) ==
    /\ Install(setLimit(State, n))

\* the promise returned by task t settles
Finish(t, ok) ==
    /\ t \in 1..Len(tasks)
    /\ tasks[t].phase = "running"
    /\ tasks' = [tasks EXCEPT
                   ![t].phase = "finished",
                   ![t].outcome = IF ok THEN ResultOf(t) ELSE ErrorOf(t)]
    /\ UNCHANGED <<concurrency, running, queue, lowered, web>>

\* process() resumes after `await task()` for task t
Resume(t) ==
    /\ t \in 1..Len(tasks)
    /\ tasks[t].phase = "finished"
    /\ Install(AfterAwait(State, QueueRecord(t, tasks[t].priority), tasks[t].outcome))

AddAny == \E b \in Bodies, p \in Priorities : Add(b, p)
SetLimitAny == \E n \in Limits : SetLimit(n)
FinishAny == \E t \in 1..MaxTasks, ok \in BOOLEAN : Finish(t, ok)
ResumeAny == \E t \in 1..MaxTasks : Resume(t)

Next == AddAny \/ SetLimitAny \/ FinishAny \/ ResumeAny

Spec == Init /\ [][Next]_vars

\* ------------------------------------------- a queue whose limit is fixed
\* the bodies that never call setLimit
BodiesConst == {b \in Bodies : b.kind # "setLimit"}

AddConst == \E b \in BodiesConst, p \in Priorities : Add(b, p)

NextConst == AddConst \/ FinishAny \/ ResumeAny

SpecConst == Init /\ [][NextConst]_vars

\* ------------------------------- callers that use the default priority
\* a caller outside the queue calls add(task)
AddFlat(body) ==
    /\ Len(tasks) + Reserved(State) + Room(body) <= MaxFlatTasks
    /\ Install(add(State, body, DefaultPriority))

\* the bodies whose add() call passes no priority either
BodiesFlat ==
    {b \in Bodies : b.kind # "add"}
    \cup {[kind |-> "add", arg |-> DefaultPriority]}

AddFlatAny == \E b \in BodiesFlat : AddFlat(b)
FinishFlatAny == \E t \in 1..MaxFlatTasks, ok \in BOOLEAN : Finish(t, ok)
ResumeFlatAny == \E t \in 1..MaxFlatTasks : Resume(t)

NextFlat == AddFlatAny \/ SetLimitAny \/ FinishFlatAny \/ ResumeFlatAny

SpecFlat == Init /\ [][NextFlat]_vars

\* ------------------------------------------------------------ vocabulary
Ids == DOMAIN tasks

\* started, and the promise task() returned has not settled
Unfinished == {t \in Ids : tasks[t].phase = "running"}

Started(ts) == {t \in DOMAIN ts : ts[t].invoked > 0}

\* the tasks process() invokes in the step
StartedInStep == Started(tasks') \ Started(tasks)

Min(a, b) == IF a <= b THEN a ELSE b

OwnOutcome(t) ==
    \/ tasks[t].handle = PendingHandle /\ tasks[t].settleCalls = 0
    \/ /\ tasks[t].handle = [state |-> "fulfilled", value |-> ResultOf(t)]
       /\ tasks[t].outcome = ResultOf(t)
    \/ /\ tasks[t].handle = [state |-> "rejected", value |-> ErrorOf(t)]
       /\ tasks[t].outcome = ErrorOf(t) \/ tasks[t].body.kind = "throw"

\* ------------------------------------------------------------------- C1
\* C1 as stated: in every reachable state the number of tasks started and
\* not finished is at most the limit in effect (a limit >= 0 granted).
C1_WithinLimitAlways ==
    concurrency >= 0 => Cardinality(Unfinished) <= concurrency

\* C1, amended: the number of tasks started and not finished is at most the
\* limit in effect, except while a setLimit has left the limit below the
\* running count and the tasks started before it have not yet drained.
C1_WithinLimitUnlessLowered ==
    concurrency >= 0 => Cardinality(Unfinished) <= concurrency \/ lowered

C1_Witness ==
    /\ concurrency = 1
    /\ Cardinality(Unfinished) = 2
    /\ lowered

\* ------------------------------------------------------------------- C2
\* C2: every task was started in a state where running < limit, and
\* running <= limit holds unless a setLimit lowered the limit under tasks
\* that are still held; calls made by a task as it is started included.
C2_StartedBelowLimit ==
    /\ \A t \in Ids : tasks[t].startedBelow
    /\ concurrency >= 0 => running <= concurrency \/ (lowered /\ Held(tasks) # {})

\* a task that called add() as it was started took the last slot, and the
\* task it added waits in the queue
C2_Witness ==
    \E t \in Ids :
        /\ tasks[t].body.kind = "add"
        /\ tasks[t].phase = "running"
        /\ running = concurrency
        /\ t + 1 \in QueuedIds(queue)

\* ------------------------------------------------------------------- C3
\* C3: resolve/reject is called at most once per handle, every task is
\* invoked at most once, and a settled handle holds its own task's
\* outcome: fulfilled with its result or rejected with its failure.
C3_SettledOnceWithOwnOutcome ==
    \A t \in Ids :
        /\ tasks[t].settleCalls <= 1
        /\ tasks[t].invoked <= 1
        /\ OwnOutcome(t)
        /\ tasks[t].phase = "released" <=> tasks[t].handle.state # "pending"

C3_Witness ==
    \E t, u \in Ids :
        /\ tasks[t].handle = [state |-> "fulfilled", value |-> ResultOf(t)]
        /\ tasks[u].handle = [state |-> "rejected", value |-> ErrorOf(u)]
        /\ tasks[u].body.kind = "async"

\* ------------------------------------------------------------------- C4
\* C4: whenever a task is started, no record left in the queue has a
\* strictly higher priority: a higher-priority task submitted later, while
\* the other is still queued, starts first.
C4_HighestPriorityFirst ==
    \A t \in Ids : tasks[t].invoked > 0 => tasks[t].noHigherLeft

\* B was submitted after A with a higher priority, has started, and A is
\* still in the queue
C4_Witness ==
    \E a, b \in Ids :
        /\ a < b
        /\ tasks[a].priority < tasks[b].priority
        /\ tasks[b].invoked > 0
        /\ a \in QueuedIds(queue)

\* ------------------------------------------------------------------- C5
\* C5: whenever a task is started, no record left in the queue has the
\* same priority and an earlier submission: equal priorities start in
\* submission order.
C5_FifoAmongEqualPriority ==
    \A t \in Ids : tasks[t].invoked > 0 => tasks[t].noEarlierLeft

\* three tasks of one priority: the first is done, the second took its
\* slot, the third waits, with a task of another priority in between
C5_Witness ==
    \E a, b, c \in Ids :
        /\ a < b /\ b < c
        /\ tasks[a].priority = tasks[c].priority
        /\ tasks[b].priority > tasks[a].priority
        /\ tasks[b].phase = "released"
        /\ tasks[a].phase = "running"
        /\ c \in QueuedIds(queue)
        /\ running = concurrency

\* ------------------------------------------------------------------- C6
\* C6 as stated: setLimit(n) with n above the running count starts
\* min(queued, n - running) tasks within the call (stated for a queue of
\* tasks that do nothing but return a promise when they are invoked).
C6_SetLimitFillsSlots ==
    [][\A n \in Limits :
          (/\ SetLimit(n)
           /\ concurrency >= 0
           /\ n > running
           /\ \A t \in QueuedIds(queue) : tasks[t].body.kind = "async") =>
              Cardinality(StartedInStep) = Min(Len(queue), n - running)]_vars

\* ------------------------------------------------------------------- C7
\* C7: a setLimit(n) with n below the running count changes no held task,
\* starts nothing and removes nothing; and while running is above the
\* limit no call of add and no completion starts a task.
C7_LoweringAbortsNothing ==
    [][/\ \A n \in Limits :
             (SetLimit(n) /\ n < running) =>
                 /\ \A t \in Held(tasks) : tasks'[t] = tasks[t]
                 /\ StartedInStep = {}
                 /\ running' = running
                 /\ queue' = queue
       /\ (running > concurrency /\ ~SetLimitAny) => StartedInStep = {}]_vars

C7_Witness ==
    /\ lowered
    /\ concurrency >= 0
    /\ running > concurrency
    /\ Len(queue) > 0
    /\ \E t \in Ids : tasks[t].phase = "released"

\* ------------------------------------------------------------------- C8
\* C8: when the continuation runs for a task that failed, its handle is
\* rejected with that task's error, running goes down by one (plus the
\* tasks the step starts and keeps), a queued task is started if the limit
\* allows, and the handle of no task outside the step changes; a task that
\* throws as it is invoked is rejected and released within the step.
C8_FailureReleasesSlot ==
    [][/\ \A t \in Ids :
             (Resume(t) /\ tasks[t].outcome = ErrorOf(t)) =>
                 /\ tasks'[t].handle = [state |-> "rejected", value |-> ErrorOf(t)]
                 /\ tasks'[t].phase = "released"
                 /\ running' = running - 1
                               + Cardinality(Held(tasks') \ Held(tasks))
                 /\ (Len(queue) > 0 /\ running - 1 < concurrency) =>
                        StartedInStep # {}
                 /\ \A u \in Ids \ ({t} \cup StartedInStep) :
                        tasks'[u].handle = tasks[u].handle
       /\ \A u \in StartedInStep :
             tasks'[u].body.kind = "throw" =>
                 /\ tasks'[u].handle = [state |-> "rejected", value |-> ErrorOf(u)]
                 /\ tasks'[u].phase = "released"
       /\ running' = Cardinality(Held(tasks'))]_vars

\* a task failed asynchronously, was rejected, and the next one runs
C8_Witness ==
    \E t, u \in Ids :
        /\ t < u
        /\ tasks[t].body.kind = "async"
        /\ tasks[t].handle = [state |-> "rejected", value |-> ErrorOf(t)]
        /\ tasks[u].phase = "running"
        /\ concurrency = 1
        /\ running = 1

\* ------------------------------------------------------------------- C9
\* C9: a call of add or setLimit leaves every started task as it is,
\* handle included; a running task stops running only by its own promise
\* settling, and is released only by its own continuation.
C9_NoPreemption ==
    [][/\ (AddAny \/ SetLimitAny) =>
             \A t \in Held(tasks) : tasks'[t] = tasks[t]
       /\ \A t \in Ids :
             /\ (tasks[t].phase = "running" /\ tasks'[t].phase # "running") =>
                    \E ok \in BOOLEAN : Finish(t, ok)
             /\ (tasks[t].phase = "finished" /\ tasks'[t] # tasks[t]) =>
                    Resume(t)]_vars

\* a higher-priority task was added while a lower one runs: it waits
C9_Witness ==
    \E a, b \in Ids :
        /\ a < b
        /\ tasks[a].priority < tasks[b].priority
        /\ tasks[a].phase = "running"
        /\ b \in QueuedIds(queue)

\* ------------------------------------------------------------------ C10
\* C10: with a constant limit L >= 0, a task starts within its add() call
\* exactly when running < L, a queued task starts only in a completion,
\* and after every step a non-empty queue implies running = L.
C10_ConstantLimitSaturates ==
    [][/\ concurrency' = concurrency
       /\ \A b \in BodiesConst, p \in Priorities :
             Add(b, p) =>
                 /\ (Len(tasks) + 1) \in StartedInStep <=> running < concurrency
                 /\ StartedInStep \cap QueuedIds(queue) = {}
       /\ concurrency >= 0 =>
             (Len(queue') > 0 => running' = concurrency')]_vars

\* limit 2, three tasks of one priority: the third started after the
\* first was released
C10_Witness ==
    /\ concurrency = 2
    /\ Len(tasks) = 3
    /\ \A t \in Ids : tasks[t].priority = 0 /\ tasks[t].body.kind = "async"
    /\ tasks[1].phase = "released"
    /\ tasks[2].phase = "running"
    /\ tasks[3].phase = "running"

\* ------------------------------------------------------------------ C12
\* C12 as stated: after a completion has been handled (handle settled,
\* running decremented, process() re-invoked) either running >= limit or
\* the queue is empty (stated for a limit >= 0 and tasks that do nothing
\* but return a promise when they are invoked).
C12_CompletionFillsSlots ==
    [][(/\ ResumeFlatAny
        /\ concurrency >= 0
        /\ \A t \in Ids : tasks[t].body.kind = "async") =>
           (running' >= concurrency' \/ Len(queue') = 0)]_vars

\* ------------------------------------------------------------------ C13
\* C13: every task is invoked at most once, the queue holds each record at
\* most once, and a task is in the queue exactly while it has not been
\* started: no step puts a started task back.
C13_QueueHoldsUnstartedOnly ==
    /\ \A t \in Ids :
          /\ tasks[t].invoked <= 1
          /\ t \in QueuedIds(queue) <=> tasks[t].invoked = 0
          /\ t \in QueuedIds(queue) <=> tasks[t].phase = "queued"
    /\ Cardinality(QueuedIds(queue)) = Len(queue)
    /\ QueuedIds(queue) \subseteq Ids

\* a task failed and was released while another task waits in the queue
C13_Witness ==
    \E t, u \in Ids :
        /\ tasks[t].handle.state = "rejected"
        /\ tasks[t].invoked = 1
        /\ u \in QueuedIds(queue)
        /\ concurrency >= 1

\* ------------------------------------------------------------------ C14
\* C14: in every reachable state the queue is ordered by priority
\* descending and, among equal priorities, by submission ascending, so the
\* head is the record with the greatest priority, earliest among ties.
C14_QueueOrdered ==
    \A i, j \in 1..Len(queue) :
        i < j =>
            /\ queue[i].priority = tasks[queue[i].task].priority
            /\ \/ queue[i].priority > queue[j].priority
               \/ /\ queue[i].priority = queue[j].priority
                  /\ queue[i].task < queue[j].task

\* a later, higher-priority record stands before two earlier equal ones
C14_Witness ==
    /\ Len(queue) = 3
    /\ queue[1].task > queue[2].task
    /\ queue[1].priority > queue[2].priority
    /\ queue[2].priority = queue[3].priority

\* ------------------------------------------------------------------ C15
\* C15: this.running equals the number of tasks invoked and not yet
\* released by the finally block, and it is never negative.
C15_RunningCountsHeld ==
    /\ running = Cardinality(Held(tasks))
    /\ running >= 0

C15_Witness ==
    /\ running = 2
    /\ \E t \in Ids :
          /\ tasks[t].handle.state = "rejected"
          /\ tasks[t].body.kind = "async"

AtZero == [State EXCEPT !.concurrency = 0]

\* the same tasks, queue and running count after the step
SameButLimit(z) ==
    /\ tasks' = z.tasks
    /\ queue' = z.queue
    /\ running' = z.running

\* C18: a negative limit is taken as it is and acts as a limit of 0: each
\* call gives the tasks, queue and running count it gives at limit 0;
\* while the limit is <= 0 nothing starts and no queued task changes, a
\* finished task is still settled with its own outcome and released; and
\* a setLimit to a positive value above running starts the head of the
\* queue.
C18_NegativeLimitActsAsZero ==
    [][/\ concurrency < 0 =>
             /\ \A b \in Bodies, p \in Priorities :
                   Add(b, p) => SameButLimit(add(AtZero, b, p))
             /\ \A t \in Ids :
                   Resume(t) =>
                       SameButLimit(AfterAwait(AtZero,
                                               QueueRecord(t, tasks[t].priority),
                                               tasks[t].outcome))
       /\ \A n \in Limits :
             (SetLimit(n) /\ n < 0) =>
                 /\ concurrency' = n
                 /\ SameButLimit(setLimit(State, 0))
       /\ (concurrency <= 0 /\ (AddAny \/ FinishAny \/ ResumeAny)) =>
             /\ StartedInStep = {}
             /\ \A t \in QueuedIds(queue) :
                   tasks'[t] = tasks[t] /\ t \in QueuedIds(queue')
       /\ \A t \in Ids :
             (Resume(t) /\ concurrency <= 0) =>
                 /\ tasks'[t].phase = "released"
                 /\ tasks'[t].handle.value = tasks[t].outcome
                 /\ running' = running - 1
       /\ \A n \in Limits :
             (SetLimit(n) /\ n > 0 /\ n > running /\ Len(queue) > 0) =>
                 Head(queue).task \in StartedInStep]_vars

\* under a negative limit a task waits in the queue while one that was
\* running has been settled and released
C18_Witness ==
    /\ concurrency < 0
    /\ Len(queue) > 0
    /\ running = 0
    /\ \E t \in Ids : tasks[t].handle.state = "fulfilled"

\* ------------------------------------------------------------------ C17
\* the bodies that call nothing or call setLimit
BodiesLive == {b \in Bodies : b.kind # "add"}

AddLive ==
    \E b \in BodiesLive :
        /\ Len(tasks) < MaxLiveTasks
        /\ Install(add(State, b, DefaultPriority))

NextLive == AddLive \/ SetLimitAny \/ FinishFlatAny \/ ResumeFlatAny

\* A started task's promise settles in the end (the claim's premise), and
\* the continuation of an await whose promise has settled is run by the
\* microtask queue.
SpecLive ==
    Init /\ [][NextLive]_vars /\ WF_vars(FinishFlatAny) /\ WF_vars(ResumeFlatAny)

\* C17: if from some point on the limit stays >= 1, every submitted task is
\* started and its handle settled in the end.
C17_EveryTaskSettles ==
    (<>[](concurrency >= 1)) =>
        \A t \in 1..MaxLiveTasks :
            (t \in Ids) ~> (t \in Ids /\ tasks[t].handle.state # "pending")

\* every task has been settled, one of them after waiting in the queue
\* behind a full limit
C17_Witness ==
    /\ Len(tasks) = MaxLiveTasks
    /\ \A t \in Ids : tasks[t].handle.state # "pending"
    /\ \E t \in Ids : tasks[t].body.kind = "setLimit" /\ tasks[t].body.arg = 0
    /\ concurrency >= 1

\* ------------------------------------------ fetchWithTimeout(url, ms)
(***************************************************************************)
(* src/callbacks/easy/fetchWithTimeout.js.  One call of fetchWithTimeout   *)
(* and one of fetchWithTimeoutClean are made with the same ms and watch    *)
(* the same ordering of events: the request settling and ms elapsing.     *)
(* Timer callbacks and the request settling are tasks of the event loop;  *)
(* promise reactions are microtasks, run in order before the next task.   *)
(***************************************************************************)
MaxMs == 2
MaxValues == 2
\* the clock runs past every ms
MaxTime == MaxMs + 1

Undefined == [kind |-> "undefined", id |-> 0]
\* the message both timer callbacks reject with
TimedOut == [kind |-> "Request Timed Out", id |-> 0]
Responses == {[kind |-> "response", id |-> i] : i \in 1..MaxValues}
Errors == {[kind |-> "error", id |-> i] : i \in 1..MaxValues}

PendingPromise == [state |-> "pending", value |-> Undefined]

\* resolve(value) / reject(value) of a promise: the first call wins
settlePromise(p, state, value) ==
    IF p.state = "pending" THEN [state |-> state, value |-> value] ELSE p

\* clearTimeout(id): cancels a timer that has not fired
clearTimeout(timer) == IF timer = "scheduled" THEN "cleared" ELSE timer

\* before either call: the request of fetch(url) is pending
Blank(ms) ==
    [called |-> TRUE, ms |-> ms, now |-> 0, fetched |-> PendingPromise,
     timeoutId |-> "none", returned |-> PendingPromise,
     cleanTimer |-> "none", timeoutPromise |-> PendingPromise,
     raced |-> PendingPromise, jobs |-> <<>>, first |-> Undefined]

\* fetchWithTimeout(url, ms): the timer is set, the handlers are attached
fetchWithTimeout(w, ms) ==
    [w EXCEPT !.timeoutId = "scheduled", !.returned = PendingPromise]

\* fetchWithTimeoutClean(url, ms): the timer is set, the race is on
fetchWithTimeoutClean(w, ms) ==
    [w EXCEPT !.cleanTimer = "scheduled", !.timeoutPromise = PendingPromise,
              !.raced = PendingPromise]

\* () => { reject("Request Timed Out"); }
timerCallback(w) ==
    [w EXCEPT !.timeoutId = "fired",
              !.returned = settlePromise(w.returned, "rejected", TimedOut)]

\* () => { reject("Request Timed Out"); } of timeoutPromise; the race has a
\* reaction on timeoutPromise
cleanTimerCallback(w) ==
    [w EXCEPT !.cleanTimer = "fired",
              !.timeoutPromise = settlePromise(w.timeoutPromise, "rejected", TimedOut),
              !.jobs = Append(w.jobs,
                  [kind |-> "race", state |-> "rejected", value |-> TimedOut])]

\* response => { clearTimeout(timeoutId); resolve(response); }
onFulfilled(w, response) ==
    [w EXCEPT !.timeoutId = clearTimeout(w.timeoutId),
              !.returned = settlePromise(w.returned, "fulfilled", response)]

\* a chain without its .catch
onRejectedMissing(w, error) == w

\* error => { clearTimeout(timeoutId); reject(error); }
onRejected(w, error) ==
    [w EXCEPT !.timeoutId = clearTimeout(w.timeoutId),
              !.returned = settlePromise(w.returned, "rejected", error)]

\* a race that only listens for fulfilment
raceReactionFulfilOnly(w, state, value) ==
    IF state = "fulfilled"
    THEN [w EXCEPT !.raced = settlePromise(w.raced, state, value)]
    ELSE w

\* Promise.race: the first of its promises to settle settles the race
raceReaction(w, state, value) ==
    [w EXCEPT !.raced = settlePromise(w.raced, state, value)]

\* one microtask.  The promise of .then(handler) passes a rejection on to
\* .catch(handler), and .catch passes a fulfilment on to nobody.
runJob(w) ==
    LET j == Head(w.jobs)
        rest == [w EXCEPT !.jobs = Tail(w.jobs)]
    IN  CASE j.kind = "then" /\ j.state = "fulfilled" ->
                 LET done == onFulfilled(rest, j.value)
                 IN  [done EXCEPT !.jobs = Append(done.jobs,
                         [kind |-> "catch", state |-> "fulfilled",
                          value |-> Undefined])]
          [] j.kind = "then" /\ j.state = "rejected" ->
                 [rest EXCEPT !.jobs = Append(rest.jobs,
                     [kind |-> "catch", state |-> "rejected",
                      value |-> j.value])]
          [] j.kind = "catch" /\ j.state = "fulfilled" -> rest
          [] j.kind = "catch" /\ j.state = "rejected" ->
                 onRejected(rest, j.value)
          [] j.kind = "race" -> raceReaction(rest, j.state, j.value)

\* the first event of the call: the request settling or ms elapsing
noteFirst(w, event) ==
    IF w.first = Undefined THEN [w EXCEPT !.first = event] ELSE w

\* no queue is constructed by this program
NoQueue ==
    /\ concurrency = 0
    /\ running = 0
    /\ queue = <<>>
    /\ tasks = <<>>
    /\ lowered = FALSE

InitFetch ==
    /\ NoQueue
    /\ \E ms \in 0..MaxMs :
           web = fetchWithTimeoutClean(fetchWithTimeout(Blank(ms), ms), ms)

\* a millisecond passes
Tick ==
    /\ web.now < MaxTime
    /\ web' = [web EXCEPT !.now = web.now + 1]
    /\ UNCHANGED <<concurrency, running, queue, tasks, lowered>>

\* the request of fetch(url) settles: its reactions are queued in the order
\* in which they were attached
FetchSettles(state, value) ==
    /\ web.fetched.state = "pending"
    /\ web.jobs = <<>>
    /\ web' = [noteFirst(web, value) EXCEPT
                 !.fetched = [state |-> state, value |-> value],
                 !.jobs = <<[kind |-> "then", state |-> state, value |-> value],
                            [kind |-> "race", state |-> state, value |-> value]>>]
    /\ UNCHANGED <<concurrency, running, queue, tasks, lowered>>

FetchSettlesAny ==
    \/ \E response \in Responses : FetchSettles("fulfilled", response)
    \/ \E error \in Errors : FetchSettles("rejected", error)

\* ms have elapsed: the timers that are still set run their callbacks
TimerFires ==
    /\ web.cleanTimer = "scheduled"
    /\ web.now >= web.ms
    /\ web.jobs = <<>>
    /\ web' = LET noted == noteFirst(web, TimedOut)
                  own == IF noted.timeoutId = "scheduled"
                         THEN timerCallback(noted) ELSE noted
              IN  cleanTimerCallback(own)
    /\ UNCHANGED <<concurrency, running, queue, tasks, lowered>>

\* the next microtask runs
RunJob ==
    /\ web.jobs # <<>>
    /\ web' = runJob(web)
    /\ UNCHANGED <<concurrency, running, queue, tasks, lowered>>

NextFetch == Tick \/ FetchSettlesAny \/ TimerFires \/ RunJob

\* time passes, timers that are due fire, microtasks run; the request may
\* never settle
SpecFetch ==
    /\ InitFetch
    /\ [][NextFetch]_vars
    /\ WF_vars(Tick) /\ WF_vars(TimerFires) /\ WF_vars(RunJob)

\* what a promise holds once `event` has decided it
OutcomeOf(event) ==
    IF event.kind = "response"
    THEN [state |-> "fulfilled", value |-> event]
    ELSE [state |-> "rejected", value |-> event]

\* ------------------------------------------------------------------ C11
\* C11: the promise returned by fetchWithTimeout settles exactly once, with
\* the outcome of the first event: the response if the request fulfils
\* first, the error if it rejects first, "Request Timed Out" if the timer
\* fires first; it holds that outcome as soon as the microtasks of the first
\* event have run, later events never change it, and it does settle.
C11_FirstEventDecides ==
    /\ [](web.returned.state # "pending" =>
              web.first # Undefined /\ web.returned = OutcomeOf(web.first))
    /\ []((web.first # Undefined /\ web.jobs = <<>>) =>
              web.returned = OutcomeOf(web.first))
    /\ [][web.returned.state # "pending" => web.returned' = web.returned]_vars
    /\ <>(web.returned.state # "pending")

\* the timer fired first and the request fulfilled afterwards: the promise
\* still holds the timeout
C11_Witness ==
    /\ web.first = TimedOut
    /\ web.fetched.state = "fulfilled"
    /\ web.jobs = <<>>
    /\ web.returned = [state |-> "rejected", value |-> TimedOut]

\* ------------------------------------------------------------------ C19
\* C19: for every ordering of the request fulfilling, the request rejecting
\* and the timer firing, the promises returned by fetchWithTimeout and by
\* fetchWithTimeoutClean settle with the same kind and the same value: they
\* never hold different outcomes, and whenever the microtasks have run
\* either both are pending or both hold the same outcome.
C19_SameOutcome ==
    /\ (web.returned.state # "pending" /\ web.raced.state # "pending")
           => web.returned = web.raced
    /\ web.jobs = <<>> => web.returned = web.raced

\* the request rejected first: fetchWithTimeout cancelled its timer, the
\* timer of fetchWithTimeoutClean fired afterwards, and both promises hold
\* the request's error
C19_Witness ==
    /\ web.timeoutId = "cleared"
    /\ web.cleanTimer = "fired"
    /\ web.jobs = <<>>
    /\ web.returned.state = "rejected"
    /\ web.returned.value \in Errors
    /\ web.raced = web.returned

====
